---------------------------- MODULE Spec2Model ----------------------------
(***************************************************************************)
(* YoSmartAPIClient (docs/yosmart-api/yosmart_client.py): the token        *)
(* lifecycle (authenticate, refresh_access_token, _ensure_valid_token),    *)
(* the request dispatcher (_call_api), the domain operations get_home_info *)
(* and get_devices, and create_client.                                     *)
(*                                                                         *)
(* Specifications: Spec (one caller, a remote side that may answer          *)
(* anything), SpecDomain (the domain operations), SpecCreate               *)
(* (create_client first), SpecConc (two concurrent callers) and SpecLive   *)
(* (a caller that keeps calling, under weak fairness).                     *)
(*                                                                         *)
(* Time is counted in seconds from datetime.min, the way datetime itself   *)
(* counts, so an instant below 0 is "date value out of range"              *)
(* (OverflowError).  The clock advances in steps of TickStep seconds.      *)
(*                                                                         *)
(* Every method is split at its network call and at each assignment to a   *)
(* token field, so that the states in between exist in the model; frame[c] *)
(* holds caller c's position and locals.                                   *)
(***************************************************************************)
EXTENDS Integers, Sequences, FiniteSets, TLC

VARIABLES
    access_token,      \* self.access_token      (None or a string)
    refresh_token,     \* self.refresh_token     (None or a string)
    token_expires_at,  \* self.token_expires_at  (<<>> is None, <<t>> a datetime)
    auto_refresh,      \* self.auto_refresh
    now,               \* datetime.now()
    frame,             \* per caller: the running method, its position and locals
    home_id,           \* self.home_id           (None or a string)
    devices,           \* self.devices           (a list)
    client,            \* the client instance: whether it exists, its credentials
    remote             \* how the token endpoint and the API endpoint answer

vars == <<access_token, refresh_token, token_expires_at, auto_refresh, now, frame,
          home_id, devices, client, remote>>

\* the cached home and device state, the instance and the remote side
cache == <<home_id, devices>>
surroundings == <<client, remote>>

---------------------------------------------------------------------------
\* Bounds of the model

\* seconds the clock advances in one step
TickStep == 150
\* clock steps taken after construction
MaxTicks == 2
\* the client is constructed StartTicks clock steps after datetime.min
StartTicks == 5

StartTime == StartTicks * TickStep
EndTime == StartTime + MaxTicks * TickStep

Callers == {"c1", "c2"}
\* Spec: one logical flow per client instance
SerialCallers == {"c1"}

---------------------------------------------------------------------------
\* Program constants and values

\* data.get('expires_in', 3600)
DefaultExpiresIn == 3600
\* timedelta(minutes=5)
MarginMinutes == 5
Margin == MarginMinutes * 60

TOKEN_URL == "https://api.yosmart.com/open/yolink/token"
API_URL == "https://api.yosmart.com/open/yolink/v2/api"
PRODUCTION_URL == "https://api.yosmart.com/open/production/v2/api"

\* Python's None, as str() and an f-string render it
None == "None"
\* Optional[datetime] None
NoneDT == <<>>
\* a key that a JSON object does not have
Missing == "<missing>"

\* `not x` for an Optional[str]
Falsy(x) == x \in {None, ""}

\* the datetime range starts at datetime.min
DatetimeInRange(t) == t >= 0

---------------------------------------------------------------------------
\* What the remote side may answer

AccessTokens == {"tok1", "tok2"}
RefreshTokens == {"rt1", "rt2"}

\* Lifetimes a token response may declare: exactly the margin, one clock step
\* more than the margin, and a negative one that lands the expiry around
\* datetime.min.
ExpiresInValues == {Margin, Margin + TickStep, 0 - (StartTime + TickStep)}

\* the expires_in member: absent, a number, or a value timedelta(seconds=...)
\* rejects (a string, null, NaN, a number too large)
ExpiresInFields ==
    {[tag |-> "missing", n |-> 0], [tag |-> "rejected", n |-> 0]}
        \cup {[tag |-> "int", n |-> n] : n \in ExpiresInValues}

TokenDicts ==
    [access_token : AccessTokens \cup {Missing},
     refresh_token : RefreshTokens \cup {Missing},
     expires_in : ExpiresInFields]

NoData == [access_token |-> Missing, refresh_token |-> Missing,
           expires_in |-> [tag |-> "missing", n |-> 0]]

\* kind "raise": requests.post raised (connection error, timeout);
\* json "malformed": response.json() raises; json "nondict": the body is valid
\* JSON but no object (a list, a string, null), so data.get raises.
TokenResponses ==
    {[kind |-> "raise", status |-> 0, json |-> "none", data |-> NoData]}
        \cup {[kind |-> "http", status |-> 401, json |-> "dict", data |-> NoData]}
        \cup {[kind |-> "http", status |-> 200, json |-> j, data |-> NoData] :
                j \in {"malformed", "nondict"}}
        \cup {[kind |-> "http", status |-> 200, json |-> "dict", data |-> d] :
                d \in TokenDicts}

\* An API response body that is a JSON object: {code?, desc?, data?}
ApiDicts ==
    [type : {"dict"},
     code : {Missing, "000000", "010101"},
     desc : {Missing, "remote desc"},
     data : {Missing, "remote data"}]

NoBody == [type |-> "none", code |-> Missing, desc |-> Missing, data |-> Missing]

\* what an error response may carry: no JSON at all, or an object (a success
\* object with data among them)
ErrorBodies ==
    {NoBody} \cup {b \in ApiDicts : b.desc # Missing /\ b.data # Missing}

ApiResponses ==
    {[kind |-> "raise", status |-> 0, json |-> "none", body |-> NoBody]}
        \cup {[kind |-> "http", status |-> s, json |-> "dict", body |-> b] :
                s \in {401, 500}, b \in ErrorBodies}
        \cup {[kind |-> "http", status |-> 200, json |-> j, body |-> NoBody] :
                j \in {"malformed", "nondict"}}
        \cup {[kind |-> "http", status |-> 200, json |-> "dict", body |-> b] :
                b \in ApiDicts}

\* A remote side that answers each kind of request in one fixed way, and the
\* one that may answer anything ("any").
TokenGrant(at, rt, e) ==
    [kind |-> "http", status |-> 200, json |-> "dict",
     data |-> [access_token |-> at, refresh_token |-> rt, expires_in |-> e]]

TokenReject == [kind |-> "http", status |-> 401, json |-> "dict", data |-> NoData]

HomeBody ==
    [type |-> "dict", code |-> "000000", desc |-> "remote desc", data |-> "remote data"]

\* answers to the client_credentials grant
ClientCredentialsReplies(policy) ==
    CASE policy = "grant" ->
            {TokenGrant("tok1", "rt1", [tag |-> "int", n |-> Margin])}
      [] policy = "ill_typed" ->
            {TokenGrant("tok1", "rt1", [tag |-> "rejected", n |-> 0])}
      [] policy = "reject" -> {TokenReject}
      [] OTHER -> TokenResponses

\* answers to the refresh_token grant
RefreshReplies(policy) ==
    CASE policy = "grant" ->
            {TokenGrant("tok2", Missing, [tag |-> "int", n |-> Margin + TickStep])}
      [] policy = "reject" -> {TokenReject}
      [] OTHER -> TokenResponses

\* answers of the API endpoint
ApiReplies(policy) ==
    CASE policy = "ok" ->
            {[kind |-> "http", status |-> 200, json |-> "dict", body |-> HomeBody]}
      [] OTHER -> ApiResponses

AnyRemote == [cc |-> "any", rt |-> "any", api |-> "any"]

\* the (method, url) pairs the domain operations pass to _call_api
Targets == {<<"Home.getGeneralInfo", API_URL>>, <<"requestDeviceId", PRODUCTION_URL>>}

---------------------------------------------------------------------------
\* Pure helpers of the methods

\* data.get(key): None when the key is absent
Get(d, key) == IF d[key] = Missing THEN None ELSE d[key]

\* data.get('expires_in', 3600)
ExpiresIn(d) ==
    IF d.expires_in.tag = "missing"
        THEN [tag |-> "int", n |-> DefaultExpiresIn]
        ELSE d.expires_in

\* datetime.now() + timedelta(seconds=expires_in) raises: timedelta rejects
\* the value, or the sum is out of the datetime range
ExpiryRaises(t, e) == e.tag # "int" \/ ~DatetimeInRange(t + e.n)

\* mutant: the declared lifetime is ignored
NewExpiry_DefaultLifetime(t, e) == <<t + DefaultExpiresIn>>

\* datetime.now() + timedelta(seconds=expires_in)
NewExpiry(t, e) == <<t + e.n>>

\* f'Bearer {self.access_token}'
Bearer(tok) == "Bearer " \o tok

---------------------------------------------------------------------------
\* ApiResult values that _call_api builds itself

\* {"code": "999999", "desc": "Failed to obtain valid token"}
TokenFailureResult ==
    [type |-> "dict", code |-> "999999", desc |-> "Failed to obtain valid token",
     data |-> Missing]

\* {"code": str(response.status_code), "desc": f"HTTP {response.status_code} error"}
HttpErrorResult(status) ==
    [type |-> "dict", code |-> ToString(status),
     desc |-> "HTTP " \o ToString(status) \o " error", data |-> Missing]

\* {"code": "999999", "desc": str(e)}
ExceptionResult(e) ==
    [type |-> "dict", code |-> "999999", desc |-> e, data |-> Missing]

\* mutant: the body of an error response is parsed and returned
ClassifyApiResponse_ParsesErrorBody(r) ==
    IF r.kind = "raise" THEN ExceptionResult("ConnectionError")
    ELSE IF r.status = 200
        THEN IF r.json = "malformed" THEN ExceptionResult("JSONDecodeError")
             ELSE IF r.json = "nondict"
                 THEN [type |-> "nondict", code |-> Missing, desc |-> Missing,
                       data |-> Missing]
                 ELSE r.body
        ELSE IF r.body.type = "dict" THEN r.body ELSE HttpErrorResult(r.status)

\* mutant: the data of a remote application error is dropped
ClassifyApiResponse_DropsErrorData(r) ==
    IF r.kind = "raise" THEN ExceptionResult("ConnectionError")
    ELSE IF r.status = 200
        THEN IF r.json = "malformed" THEN ExceptionResult("JSONDecodeError")
             ELSE IF r.json = "nondict"
                 THEN [type |-> "nondict", code |-> Missing, desc |-> Missing,
                       data |-> Missing]
                 ELSE IF r.body.code = "000000" THEN r.body
                      ELSE [r.body EXCEPT !.data = Missing]
        ELSE HttpErrorResult(r.status)

\* what _call_api returns for an API response
ClassifyApiResponse(r) ==
    IF r.kind = "raise" THEN ExceptionResult("ConnectionError")
    ELSE IF r.status = 200
        THEN IF r.json = "malformed" THEN ExceptionResult("JSONDecodeError")
             ELSE IF r.json = "nondict"
                 THEN [type |-> "nondict", code |-> Missing, desc |-> Missing,
                       data |-> Missing]
                 ELSE r.body
        ELSE HttpErrorResult(r.status)

---------------------------------------------------------------------------
\* Callers' frames

NoSnapshot ==
    [access_token |-> None, refresh_token |-> None, token_expires_at |-> NoneDT,
     now |-> 0, home_id |-> None, devices |-> <<>>]

\* what a domain operation gave its caller: nothing yet ("none"), the call
\* it made is still to be read ("pending"), None, a value, or an exception
NoReturn == [kind |-> "none", val |-> <<>>]

IdleFrame ==
    [pc |-> "idle", op |-> "none", method |-> "none", url |-> "none",
     data |-> NoData, pre |-> NoSnapshot, stack |-> <<>>, rets |-> <<>>,
     net |-> <<>>, replies |-> <<>>, result |-> NoBody, raised |-> FALSE,
     outer |-> "none", returned |-> NoReturn, prev |-> NoReturn]

\* the fields and the clock at the moment a method is entered
Snapshot ==
    [access_token |-> access_token, refresh_token |-> refresh_token,
     token_expires_at |-> token_expires_at, now |-> now,
     home_id |-> home_id, devices |-> devices]

\* the frame of a method entered now
Enter(o, m, u) ==
    [IdleFrame EXCEPT !.pc = "entered", !.op = o, !.method = m, !.url = u,
                      !.pre = Snapshot]

\* every token-manager method on the stack returns b, innermost first
Unwind(stack, b) ==
    [i \in 1..Len(stack) |-> [fn |-> stack[Len(stack) + 1 - i], val |-> b]]

\* mutant: the gate lets a refused token through
GateProceeds_Always(b) == TRUE

\* `if not self._ensure_valid_token(): return {...}`: whether _call_api goes on
GateProceeds(b) == b

\* The token-manager methods on `stack` return b.  Inside _call_api the gate
\* follows: the synthetic result, or on to the API request.
ReturnBool(f, stack, b) ==
    LET g == [f EXCEPT !.stack = stack, !.rets = Unwind(stack, b)]
    IN  IF f.op = "_call_api"
            THEN IF GateProceeds(b)
                    THEN [g EXCEPT !.pc = "call_post"]
                    ELSE [g EXCEPT !.pc = "done", !.result = TokenFailureResult]
            ELSE [g EXCEPT !.pc = "done"]

\* an exception leaves the running method (no handler around it)
Raise(f, stack) == [f EXCEPT !.stack = stack, !.pc = "done", !.raised = TRUE]

\* refresh_access_token's first test: `if not self.refresh_token`
RefreshDecision(rt) == IF Falsy(rt) THEN "authenticate" ELSE "post"

\* refresh_access_token entered with `stack` above it
RefreshEntry(f, stack) ==
    IF RefreshDecision(refresh_token) = "authenticate"
        THEN [f EXCEPT !.stack = stack \o <<"refresh_access_token", "authenticate">>,
                       !.pc = "auth_post"]
        ELSE [f EXCEPT !.stack = stack \o <<"refresh_access_token">>,
                       !.pc = "refresh_post"]

\* mutant: the margin test taken as >=
EnsureDecision_Inclusive(at, exp, ar, t) ==
    IF Falsy(at) THEN "authenticate"
    ELSE IF ar /\ exp # NoneDT
        THEN IF ~DatetimeInRange(exp[1] - Margin) THEN "raise"
             ELSE IF t >= exp[1] - Margin THEN "refresh" ELSE "valid"
        ELSE "valid"

\* mutant: the test for an absent access token left out
EnsureDecision_NoAbsentTest(at, exp, ar, t) ==
    IF ar /\ exp # NoneDT
        THEN IF ~DatetimeInRange(exp[1] - Margin) THEN "raise"
             ELSE IF t > exp[1] - Margin THEN "refresh" ELSE "valid"
        ELSE "valid"

\* _ensure_valid_token's tests, on the token fields and the clock read at entry.
\* token_expires_at - timedelta(minutes=5) raises OverflowError when it falls
\* before datetime.min.
EnsureDecision(at, exp, ar, t) ==
    IF Falsy(at) THEN "authenticate"
    ELSE IF ar /\ exp # NoneDT
        THEN IF ~DatetimeInRange(exp[1] - Margin) THEN "raise"
             ELSE IF t > exp[1] - Margin THEN "refresh" ELSE "valid"
        ELSE "valid"

\* _ensure_valid_token entered
EnsureEntry(f) ==
    LET d == EnsureDecision(access_token, token_expires_at, auto_refresh, now)
        stack == <<"_ensure_valid_token">>
    IN  CASE d = "authenticate" ->
                [f EXCEPT !.stack = stack \o <<"authenticate">>, !.pc = "auth_post"]
          [] d = "refresh" -> RefreshEntry(f, stack)
          [] d = "raise" -> Raise(f, stack)
          [] OTHER -> ReturnBool(f, stack, TRUE)

---------------------------------------------------------------------------
\* Requests, as the remote side sees them

TokenRequest(grant, cred) ==
    [kind |-> "token", url |-> TOKEN_URL, what |-> grant, cred |-> cred]

ApiRequest(u, m, authorization) ==
    [kind |-> "api", url |-> u, what |-> m, cred |-> authorization]

\* a response as received: the token members are kept in the frame's data
Reply(r) == [kind |-> r.kind, status |-> r.status, json |-> r.json,
             body |-> IF "body" \in DOMAIN r THEN r.body ELSE NoBody]

\* mutant: the status of the token response is not tested
TokenResponseRead_AnyStatus(r) == r.kind = "http" /\ r.json = "dict"

\* a token response the methods go on to read: HTTP 200 with a JSON object
TokenResponseRead(r) == r.kind = "http" /\ r.status = 200 /\ r.json = "dict"

\* mutant: the header built from the token held when _call_api was entered
AuthorizationHeader_Stale(f) == Bearer(f.pre.access_token)

\* the Authorization header of the API request, built when it is sent
AuthorizationHeader(f) == Bearer(access_token)

---------------------------------------------------------------------------
\* The instance

\* state: "none" before construction, "constructed", or "ValueError" when
\* create_client raised; args and environ are what create_client was given
\* (<<uaid, secret_key>> and <<YOSMART_UAID, YOSMART_SECRET>>)
NoClient ==
    [state |-> "none", uaid |-> None, secret_key |-> None,
     args |-> <<None, None>>, environ |-> <<None, None>>]

\* YoSmartAPIClient(uaid, secret_key)
NewClient(u, k) == [NoClient EXCEPT !.state = "constructed", !.uaid = u,
                                    !.secret_key = k]

\* an instance made by calling the constructor directly
DirectClient == NewClient("ua_arg", "sec_arg")

---------------------------------------------------------------------------
\* Initial state: YoSmartAPIClient.__init__

Init ==
    /\ access_token = None
    /\ refresh_token = None
    /\ token_expires_at = NoneDT
    /\ auto_refresh \in BOOLEAN
    /\ now = StartTime
    /\ frame = [c \in Callers |-> IdleFrame]
    /\ home_id = None
    /\ devices = <<>>
    /\ client = DirectClient
    /\ remote = AnyRemote

---------------------------------------------------------------------------
\* The clock

Tick ==
    /\ now + TickStep <= EndTime
    /\ now' = now + TickStep
    /\ UNCHANGED <<access_token, refresh_token, token_expires_at, auto_refresh, frame, cache, surroundings>>

---------------------------------------------------------------------------
\* A caller enters a method

authenticate(c) ==
    /\ client.state = "constructed"
    /\ frame[c].pc = "idle"
    /\ frame' = [frame EXCEPT ![c] =
                    [Enter("authenticate", "none", "none") EXCEPT
                        !.stack = <<"authenticate">>, !.pc = "auth_post"]]
    /\ UNCHANGED <<access_token, refresh_token, token_expires_at, auto_refresh, now, cache, surroundings>>

refresh_access_token(c) ==
    /\ client.state = "constructed"
    /\ frame[c].pc = "idle"
    /\ frame' = [frame EXCEPT ![c] =
                    RefreshEntry(Enter("refresh_access_token", "none", "none"), <<>>)]
    /\ UNCHANGED <<access_token, refresh_token, token_expires_at, auto_refresh, now, cache, surroundings>>

ensure_valid_token(c) ==
    /\ client.state = "constructed"
    /\ frame[c].pc = "idle"
    /\ frame' = [frame EXCEPT ![c] =
                    EnsureEntry(Enter("_ensure_valid_token", "none", "none"))]
    /\ UNCHANGED <<access_token, refresh_token, token_expires_at, auto_refresh, now, cache, surroundings>>

call_api(c, m, u) ==
    /\ client.state = "constructed"
    /\ frame[c].pc = "idle"
    /\ frame' = [frame EXCEPT ![c] = EnsureEntry(Enter("_call_api", m, u))]
    /\ UNCHANGED <<access_token, refresh_token, token_expires_at, auto_refresh, now, cache, surroundings>>

---------------------------------------------------------------------------
\* authenticate, from its request on

\* requests.post(TOKEN_URL, client_credentials), the status test,
\* response.json() and `self.access_token = data.get('access_token')`
authenticate_post(c) ==
    /\ frame[c].pc = "auth_post"
    /\ \E r \in ClientCredentialsReplies(remote.cc) :
            LET f == [frame[c] EXCEPT
                        !.net = Append(@, TokenRequest("client_credentials",
                                                       "client_secret")),
                        !.replies = Append(@, Reply(r))]
            IN  IF TokenResponseRead(r)
                    THEN /\ access_token' = Get(r.data, "access_token")
                         /\ frame' = [frame EXCEPT ![c] =
                                [f EXCEPT !.data = r.data, !.pc = "auth_store_refresh"]]
                    ELSE /\ access_token' = access_token
                         /\ frame' = [frame EXCEPT ![c] = ReturnBool(f, f.stack, FALSE)]
    /\ UNCHANGED <<refresh_token, token_expires_at, auto_refresh, now, cache, surroundings>>

\* self.refresh_token = data.get('refresh_token')
authenticate_store_refresh(c) ==
    /\ frame[c].pc = "auth_store_refresh"
    /\ refresh_token' = Get(frame[c].data, "refresh_token")
    /\ frame' = [frame EXCEPT ![c].pc = "auth_store_expiry"]
    /\ UNCHANGED <<access_token, token_expires_at, auto_refresh, now, cache, surroundings>>

\* expires_in = data.get('expires_in', 3600);
\* self.token_expires_at = datetime.now() + timedelta(seconds=expires_in);
\* return True -- or the except clause: return False
StoreExpiry(c) ==
    LET f == frame[c]
        e == ExpiresIn(f.data)
    IN  IF ExpiryRaises(now, e)
            THEN /\ token_expires_at' = token_expires_at
                 /\ frame' = [frame EXCEPT ![c] = ReturnBool(f, f.stack, FALSE)]
            ELSE /\ token_expires_at' = NewExpiry(now, e)
                 /\ frame' = [frame EXCEPT ![c] = ReturnBool(f, f.stack, TRUE)]

authenticate_store_expiry(c) ==
    /\ frame[c].pc = "auth_store_expiry"
    /\ StoreExpiry(c)
    /\ UNCHANGED <<access_token, refresh_token, auto_refresh, now, cache, surroundings>>

---------------------------------------------------------------------------
\* refresh_access_token, from its request on

\* mutant: a failed refresh falls back to authenticate
RefreshFailed_Reauthenticate(f) ==
    [f EXCEPT !.stack = @ \o <<"authenticate">>, !.pc = "auth_post"]

\* refresh_access_token's else branch and except clause: return False
RefreshFailed(f) == ReturnBool(f, f.stack, FALSE)

\* what a successful refresh exchange leaves in self.refresh_token: the
\* method assigns access_token and token_expires_at only
RefreshTokenAfterRefresh(held, d) == held

\* requests.post(TOKEN_URL, refresh_token), the status test, response.json()
\* and `self.access_token = data.get('access_token')`
refresh_post(c) ==
    /\ frame[c].pc = "refresh_post"
    /\ \E r \in RefreshReplies(remote.rt) :
            LET f == [frame[c] EXCEPT
                        !.net = Append(@, TokenRequest("refresh_token", refresh_token)),
                        !.replies = Append(@, Reply(r))]
            IN  IF TokenResponseRead(r)
                    THEN /\ access_token' = Get(r.data, "access_token")
                         /\ refresh_token' = RefreshTokenAfterRefresh(refresh_token, r.data)
                         /\ frame' = [frame EXCEPT ![c] =
                                [f EXCEPT !.data = r.data, !.pc = "refresh_store_expiry"]]
                    ELSE /\ access_token' = access_token
                         /\ refresh_token' = refresh_token
                         /\ frame' = [frame EXCEPT ![c] = RefreshFailed(f)]
    /\ UNCHANGED <<token_expires_at, auto_refresh, now, cache, surroundings>>

refresh_store_expiry(c) ==
    /\ frame[c].pc = "refresh_store_expiry"
    /\ StoreExpiry(c)
    /\ UNCHANGED <<access_token, refresh_token, auto_refresh, now, cache, surroundings>>

---------------------------------------------------------------------------
\* _call_api, after the token gate

\* the headers, requests.post(url, json=payload, headers=headers, timeout=10)
\* and the classification of the response
call_api_post(c) ==
    /\ frame[c].pc = "call_post"
    /\ \E r \in ApiReplies(remote.api) :
            frame' = [frame EXCEPT ![c] =
                [@ EXCEPT !.net = Append(@, ApiRequest(frame[c].url, frame[c].method,
                                                       AuthorizationHeader(frame[c]))),
                          !.replies = Append(@, Reply(r)),
                          !.result = ClassifyApiResponse(r),
                          !.pc = "done"]]
    /\ UNCHANGED <<access_token, refresh_token, token_expires_at, auto_refresh, now, cache, surroundings>>

\* the method has returned (or raised) and its caller goes on, keeping what
\* get_home_info gave it until its next call
Return(c) ==
    /\ frame[c].pc = "done"
    /\ frame[c].returned.kind # "pending"
    /\ frame' = [frame EXCEPT ![c] =
                    [IdleFrame EXCEPT !.prev =
                        IF frame[c].outer = "get_home_info"
                            THEN frame[c].returned ELSE NoReturn]]
    /\ UNCHANGED <<access_token, refresh_token, token_expires_at, auto_refresh, now, cache, surroundings>>

---------------------------------------------------------------------------
\* The domain operations get_home_info and get_devices

\* the 'id' member and the 'devices' member of a data object
HomeIdOf(data) == "id of " \o data
DevicesOf(data) == <<"device of " \o data>>

Pending == [kind |-> "pending", val |-> <<>>]
ReturnedNone == [kind |-> "None", val |-> <<>>]
ReturnedValue(v) == [kind |-> "value", val |-> <<v>>]
ReturnedList(l) == [kind |-> "list", val |-> l]
ReturnedRaise == [kind |-> "raise", val |-> <<>>]

\* result = self._call_api(method)
DomainEntry(c, o, m) ==
    /\ client.state = "constructed"
    /\ frame[c].pc = "idle"
    /\ frame' = [frame EXCEPT ![c] =
                    [EnsureEntry(Enter("_call_api", m, API_URL)) EXCEPT
                        !.outer = o, !.returned = Pending, !.prev = frame[c].prev]]
    /\ UNCHANGED <<access_token, refresh_token, token_expires_at, auto_refresh, now,
                   cache, surroundings>>

get_home_info(c) == DomainEntry(c, "get_home_info", "Home.getGeneralInfo")

get_devices(c) == DomainEntry(c, "get_devices", "Home.getDeviceList")

\* result.get('code') == '000000'
Succeeded(result) == result.code = "000000"

\* _call_api raised, or result.get raises: the result is no object
DomainRaises(f) == f.raised \/ f.result.type # "dict"

\* mutant: a failed get_home_info forgets the home
HomeIdAfter_ClearedOnFailure(result, held) ==
    IF Succeeded(result)
        THEN IF result.data = Missing THEN None ELSE HomeIdOf(result.data)
        ELSE None

\* self.home_id after get_home_info read `result`:
\* result.get('data', {}).get('id') on success, untouched otherwise
HomeIdAfter(result, held) ==
    IF Succeeded(result)
        THEN IF result.data = Missing THEN None ELSE HomeIdOf(result.data)
        ELSE held

\* self.devices after get_devices read `result`:
\* result.get('data', {}).get('devices', []) on success, untouched otherwise
DevicesAfter(result, held) ==
    IF Succeeded(result)
        THEN IF result.data = Missing THEN <<>> ELSE DevicesOf(result.data)
        ELSE held

\* get_home_info after its _call_api
get_home_info_result(c) ==
    LET f == frame[c]
    IN  /\ f.pc = "done"
        /\ f.outer = "get_home_info"
        /\ f.returned = Pending
        /\ IF DomainRaises(f)
              THEN /\ frame' = [frame EXCEPT ![c].returned = ReturnedRaise,
                                             ![c].raised = TRUE]
                   /\ home_id' = home_id
              ELSE /\ home_id' = HomeIdAfter(f.result, home_id)
                   /\ frame' = [frame EXCEPT ![c].returned =
                            IF Succeeded(f.result) /\ f.result.data # Missing
                                THEN ReturnedValue(f.result.data)
                                ELSE ReturnedNone]
        /\ UNCHANGED <<access_token, refresh_token, token_expires_at, auto_refresh, now,
                       devices, surroundings>>

\* get_devices after its _call_api
get_devices_result(c) ==
    LET f == frame[c]
    IN  /\ f.pc = "done"
        /\ f.outer = "get_devices"
        /\ f.returned = Pending
        /\ IF DomainRaises(f)
              THEN /\ frame' = [frame EXCEPT ![c].returned = ReturnedRaise,
                                             ![c].raised = TRUE]
                   /\ devices' = devices
              ELSE /\ devices' = DevicesAfter(f.result, devices)
                   /\ frame' = [frame EXCEPT ![c].returned =
                            IF Succeeded(f.result)
                                THEN ReturnedList(DevicesAfter(f.result, devices))
                                ELSE ReturnedList(<<>>)]
        /\ UNCHANGED <<access_token, refresh_token, token_expires_at, auto_refresh, now,
                       home_id, surroundings>>

---------------------------------------------------------------------------
\* One logical flow per client instance

Next ==
    \/ Tick
    \/ \E c \in SerialCallers :
        \/ authenticate(c)
        \/ refresh_access_token(c)
        \/ ensure_valid_token(c)
        \/ \E t \in Targets : call_api(c, t[1], t[2])
        \/ authenticate_post(c)
        \/ authenticate_store_refresh(c)
        \/ authenticate_store_expiry(c)
        \/ refresh_post(c)
        \/ refresh_store_expiry(c)
        \/ call_api_post(c)
        \/ Return(c)

Spec == Init /\ [][Next]_vars

---------------------------------------------------------------------------
\* create_client, then the methods of the instance it returns

\* an argument left out or an environment variable not set (None), an empty
\* one, and a value
UaidArgs == {None, "", "ua_arg"}
SecretArgs == {None, "", "sec_arg"}
UaidEnviron == {None, "", "ua_env"}
SecretEnviron == {None, "", "sec_env"}

\* x or y
Or(x, y) == IF Falsy(x) THEN y ELSE x

\* mutant: only the absence of both credentials is an error
CredentialsMissing_BothAbsent(u, k) == Falsy(u) /\ Falsy(k)

\* if not uaid or not secret_key
CredentialsMissing(u, k) == Falsy(u) \/ Falsy(k)

create_client(a_uaid, a_secret, e_uaid, e_secret) ==
    LET u == Or(a_uaid, e_uaid)
        k == Or(a_secret, e_secret)
        given == [NoClient EXCEPT !.args = <<a_uaid, a_secret>>,
                                  !.environ = <<e_uaid, e_secret>>]
    IN  /\ client.state = "none"
        /\ IF CredentialsMissing(u, k)
              THEN /\ client' = [given EXCEPT !.state = "ValueError"]
                   /\ UNCHANGED <<access_token, refresh_token, token_expires_at,
                                  auto_refresh, cache>>
              ELSE /\ client' = [given EXCEPT !.state = "constructed", !.uaid = u,
                                              !.secret_key = k]
                   /\ access_token' = None
                   /\ refresh_token' = None
                   /\ token_expires_at' = NoneDT
                   /\ auto_refresh' = TRUE
                   /\ home_id' = None
                   /\ devices' = <<>>
        /\ UNCHANGED <<now, frame, remote>>

InitCreate ==
    /\ access_token = None
    /\ refresh_token = None
    /\ token_expires_at = NoneDT
    /\ auto_refresh = TRUE
    /\ now = StartTime
    /\ frame = [c \in Callers |-> IdleFrame]
    /\ home_id = None
    /\ devices = <<>>
    /\ client = NoClient
    /\ remote = [cc |-> "grant", rt |-> "grant", api |-> "ok"]

NextCreate ==
    \/ \E a_uaid \in UaidArgs, a_secret \in SecretArgs,
          e_uaid \in UaidEnviron, e_secret \in SecretEnviron :
            create_client(a_uaid, a_secret, e_uaid, e_secret)
    \/ Next

SpecCreate == InitCreate /\ [][NextCreate]_vars

---------------------------------------------------------------------------
\* A caller that keeps invoking _call_api, auto-renewal enabled, against a
\* token endpoint that accepts the client identifier and secret and either
\* accepts or refuses the refresh token it issued

InitLive ==
    /\ access_token = None
    /\ refresh_token = None
    /\ token_expires_at = NoneDT
    /\ auto_refresh = TRUE
    /\ now = StartTime
    /\ frame = [c \in Callers |-> IdleFrame]
    /\ home_id = None
    /\ devices = <<>>
    /\ client = DirectClient
    /\ remote \in [cc : {"grant"}, rt : {"grant", "reject"}, api : {"ok", "any"}]

\* the steps of the caller's invocations
CallSteps ==
    \E c \in SerialCallers :
        \/ \E t \in Targets : call_api(c, t[1], t[2])
        \/ authenticate_post(c)
        \/ authenticate_store_refresh(c)
        \/ authenticate_store_expiry(c)
        \/ refresh_post(c)
        \/ refresh_store_expiry(c)
        \/ call_api_post(c)
        \/ Return(c)

NextLive == Tick \/ CallSteps

\* every invocation runs to its end and is followed by another one
SpecLive == InitLive /\ [][NextLive]_vars /\ WF_vars(CallSteps)

---------------------------------------------------------------------------
\* One client shared by two concurrent callers of _call_api: their steps
\* interleave, nothing in the class serializes them

InitConc ==
    /\ access_token = None
    /\ refresh_token = None
    /\ token_expires_at = NoneDT
    /\ auto_refresh \in BOOLEAN
    /\ now = StartTime
    /\ frame = [c \in Callers |-> IdleFrame]
    /\ home_id = None
    /\ devices = <<>>
    /\ client = DirectClient
    /\ remote \in [cc : {"grant"}, rt : {"grant", "reject"}, api : {"ok"}]

NextConc ==
    \/ Tick
    \/ \E c \in Callers :
        \/ \E t \in Targets : call_api(c, t[1], t[2])
        \/ authenticate_post(c)
        \/ authenticate_store_refresh(c)
        \/ authenticate_store_expiry(c)
        \/ refresh_post(c)
        \/ refresh_store_expiry(c)
        \/ call_api_post(c)
        \/ Return(c)

SpecConc == InitConc /\ [][NextConc]_vars

---------------------------------------------------------------------------
\* The domain operations against a remote side that answers in a fixed way
\* (the API endpoint may also answer anything)

DomainRemotes ==
    [cc : {"grant", "ill_typed", "reject"}, rt : {"grant", "reject"},
     api : {"ok", "any"}]

InitDomain ==
    /\ access_token = None
    /\ refresh_token = None
    /\ token_expires_at = NoneDT
    /\ auto_refresh \in BOOLEAN
    /\ now = StartTime
    /\ frame = [c \in Callers |-> IdleFrame]
    /\ home_id = None
    /\ devices = <<>>
    /\ client = DirectClient
    /\ remote \in DomainRemotes

NextDomain ==
    \/ Next
    \/ \E c \in SerialCallers :
        \/ get_home_info(c)
        \/ get_devices(c)
        \/ get_home_info_result(c)
        \/ get_devices_result(c)

SpecDomain == InitDomain /\ [][NextDomain]_vars

---------------------------------------------------------------------------
\* Vocabulary of the properties

TokenRequests(f) == SelectSeq(f.net, LAMBDA e : e.kind = "token")
ApiRequests(f) == SelectSeq(f.net, LAMBDA e : e.kind = "api")

\* how many times method fn was entered
Entered(f, fn) == Cardinality({i \in 1..Len(f.stack) : f.stack[i] = fn})

\* method fn has returned b
Returned(f, fn, b) == \E i \in 1..Len(f.rets) : f.rets[i] = [fn |-> fn, val |-> b]

\* caller c's method o has returned or raised
Done(c, o) == frame[c].pc = "done" /\ frame[c].op = o

\* an invocation of _ensure_valid_token, alone or inside _call_api, is over
EnsureOver(f) ==
    /\ f.op \in {"_ensure_valid_token", "_call_api"}
    /\ \/ f.raised
       \/ Returned(f, "_ensure_valid_token", TRUE)
       \/ Returned(f, "_ensure_valid_token", FALSE)

\* no method is between two of its steps
Quiescent == \A c \in Callers : frame[c].pc \in {"idle", "done"}

\* the answers to the token requests, and to the API requests
TokenAnswers(f) ==
    [i \in {j \in 1..Len(f.net) : f.net[j].kind = "token"} |-> f.replies[i]]
ApiAnswers(f) ==
    [i \in {j \in 1..Len(f.net) : f.net[j].kind = "api"} |-> f.replies[i]]

\* the token response could not be used: the request failed, the endpoint
\* refused, or the body did not decode
TokenAnswerFailed(r) == r.kind = "raise" \/ r.status # 200 \/ r.json = "malformed"

\* the token fields are what they were when the method was entered
TokenStateUnchanged(f) ==
    /\ access_token = f.pre.access_token
    /\ refresh_token = f.pre.refresh_token
    /\ token_expires_at = f.pre.token_expires_at

---------------------------------------------------------------------------
\* C1: _call_api never raises, and whatever the token request and the API
\* request come to, it returns a well-formed ApiResult: an object whose code
\* is present and non-empty.
C1_CallReturnsWellFormedResult ==
    \A c \in Callers :
        Done(c, "_call_api") =>
            /\ ~frame[c].raised
            /\ frame[c].result.type = "dict"
            /\ frame[c].result.code \notin {Missing, ""}

\* C2: between operations, no access token held implies no expiry held.
C2_ExpiryOnlyWithAccessToken ==
    Quiescent => (access_token = None => token_expires_at = NoneDT)

\* C3: when _ensure_valid_token has returned True an access token is held,
\* and no API request carries the header of an absent token.
C3_TrueMeansTokenHeld ==
    \A c \in Callers :
        /\ Returned(frame[c], "_ensure_valid_token", TRUE) => ~Falsy(access_token)
        /\ \A i \in 1..Len(frame[c].net) :
                frame[c].net[i].kind = "api" => frame[c].net[i].cred # Bearer(None)

\* C4 as stated: entered with now within 5 minutes of, or past,
\* token_expires_at, _ensure_valid_token sends exactly one token request.
C4_WithinMarginRenewsOnce ==
    \A c \in Callers :
        LET f == frame[c]
        IN  (/\ EnsureOver(f)
             /\ f.pre.token_expires_at # NoneDT
             /\ f.pre.now >= f.pre.token_expires_at[1] - Margin)
                => Len(TokenRequests(f)) = 1

\* C4 amended: entered with an expiry held and now at or after
\* token_expires_at - 5 minutes, _ensure_valid_token
\*   - with no access token held: calls authenticate once, one
\*     client_credentials request;
\*   - with an access token, auto_refresh on and now strictly after
\*     token_expires_at - 5 minutes: calls refresh_access_token once, which
\*     sends exactly one token request (refresh_token grant if a refresh
\*     token is held, else authenticate's client_credentials grant);
\*   - with an access token and auto_refresh off, or now exactly at
\*     token_expires_at - 5 minutes: sends nothing and returns True;
\*   - with an access token, auto_refresh on and token_expires_at - 5 minutes
\*     before datetime.min: raises, having sent nothing.
C4_StaleTokenRenewsOnce ==
    \A c \in Callers :
        LET f == frame[c]
            exp == f.pre.token_expires_at[1]
            held == ~Falsy(f.pre.access_token)
            one(grant) ==
                /\ Len(TokenRequests(f)) = 1
                /\ TokenRequests(f)[1].what = grant
        IN  (/\ EnsureOver(f)
             /\ f.pre.token_expires_at # NoneDT
             /\ f.pre.now >= exp - Margin)
                => /\ ~held =>
                        /\ one("client_credentials")
                        /\ Entered(f, "authenticate") = 1
                        /\ Entered(f, "refresh_access_token") = 0
                   /\ (held /\ auto_refresh /\ exp - Margin >= 0 /\ f.pre.now > exp - Margin) =>
                        /\ Entered(f, "refresh_access_token") = 1
                        /\ ~f.raised
                        /\ IF f.pre.refresh_token = None
                              THEN one("client_credentials") /\ Entered(f, "authenticate") = 1
                              ELSE one("refresh_token") /\ Entered(f, "authenticate") = 0
                   /\ (held /\ (~auto_refresh \/ f.pre.now = exp - Margin)) =>
                        /\ TokenRequests(f) = <<>>
                        /\ Returned(f, "_ensure_valid_token", TRUE)
                   /\ (held /\ auto_refresh /\ exp - Margin < 0) =>
                        /\ TokenRequests(f) = <<>>
                        /\ f.raised

\* C4 witness: a stale token was renewed with one refresh_token request
C4_Witness ==
    \E c \in Callers :
        LET f == frame[c]
        IN  /\ Done(c, "_ensure_valid_token")
            /\ ~Falsy(f.pre.access_token)
            /\ auto_refresh
            /\ f.pre.token_expires_at # NoneDT
            /\ f.pre.now > f.pre.token_expires_at[1] - Margin
            /\ Len(f.net) = 1
            /\ f.net[1].what = "refresh_token"
            /\ Returned(f, "_ensure_valid_token", TRUE)

\* C5: entered with auto_refresh on and now strictly more than 5 minutes
\* before token_expires_at, _ensure_valid_token sends no request, leaves the
\* token fields as they were and returns True.
C5_FreshTokenNoNetwork ==
    \A c \in Callers :
        LET f == frame[c]
        IN  (/\ EnsureOver(f)
             /\ auto_refresh
             /\ f.pre.token_expires_at # NoneDT
             /\ f.pre.now < f.pre.token_expires_at[1] - Margin)
                => /\ TokenRequests(f) = <<>>
                   /\ TokenStateUnchanged(f)
                   /\ Returned(f, "_ensure_valid_token", TRUE)

\* C6: entered with no access token, _ensure_valid_token calls authenticate
\* exactly once (one client_credentials request, no refresh_token request)
\* and returns what authenticate returned.
C6_AbsentTokenAuthenticatesOnce ==
    \A c \in Callers :
        LET f == frame[c]
        IN  (EnsureOver(f) /\ Falsy(f.pre.access_token))
                => /\ Entered(f, "authenticate") = 1
                   /\ Entered(f, "refresh_access_token") = 0
                   /\ Len(TokenRequests(f)) = 1
                   /\ TokenRequests(f)[1].what = "client_credentials"
                   /\ \E b \in BOOLEAN :
                        /\ Returned(f, "authenticate", b)
                        /\ Returned(f, "_ensure_valid_token", b)
                        /\ ~Returned(f, "_ensure_valid_token", ~b)

\* C6 witness: with no token held, _ensure_valid_token returned authenticate's False
C6_Witness ==
    \E c \in Callers :
        /\ Done(c, "_ensure_valid_token")
        /\ Falsy(frame[c].pre.access_token)
        /\ Returned(frame[c], "authenticate", FALSE)
        /\ Returned(frame[c], "_ensure_valid_token", FALSE)

\* C7: when _ensure_valid_token returns False inside _call_api, the call
\* returns code "999999" with the no-token description and has sent no API
\* request.
C7_InvalidTokenNoApiRequest ==
    \A c \in Callers :
        LET f == frame[c]
        IN  (Done(c, "_call_api") /\ Returned(f, "_ensure_valid_token", FALSE))
                => /\ f.result.type = "dict"
                   /\ f.result.code = "999999"
                   /\ f.result.desc = "Failed to obtain valid token"
                   /\ f.result.data = Missing
                   /\ ApiRequests(f) = <<>>

\* C7 witness: a _call_api whose token request was refused
C7_Witness ==
    \E c \in Callers :
        /\ Done(c, "_call_api")
        /\ Returned(frame[c], "_ensure_valid_token", FALSE)
        /\ frame[c].result.code = "999999"
        /\ Len(frame[c].net) = 1

\* C8: one _call_api sends at most one token request and at most one API
\* request; a refresh_token request is never followed by a
\* client_credentials request.
C8_NoRetries ==
    \A c \in Callers :
        LET f == frame[c]
        IN  f.op = "_call_api"
                => /\ Len(TokenRequests(f)) <= 1
                   /\ Len(ApiRequests(f)) <= 1

\* C8 witness: a _call_api whose refresh failed ended there
C8_Witness ==
    \E c \in Callers :
        LET f == frame[c]
        IN  /\ Done(c, "_call_api")
            /\ Len(f.net) = 1
            /\ f.net[1].what = "refresh_token"
            /\ Returned(f, "refresh_access_token", FALSE)

\* C9: inside one _call_api the token request comes before the API request,
\* and the API request carries Bearer <the access token held after the token
\* request>.
C9_TokenRequestBeforeApiRequest ==
    \A c \in Callers :
        LET f == frame[c]
        IN  (Done(c, "_call_api") /\ ApiRequests(f) # <<>>)
                => /\ f.net[Len(f.net)].kind = "api"
                   /\ f.net[Len(f.net)].cred = Bearer(access_token)
                   /\ (TokenRequests(f) # <<>> /\ f.data.access_token # Missing)
                        => f.net[Len(f.net)].cred = Bearer(f.data.access_token)

\* C9 witness: a stale token was refreshed to another one, which the API
\* request then carried
C9_Witness ==
    \E c \in Callers :
        LET f == frame[c]
        IN  /\ Done(c, "_call_api")
            /\ Len(f.net) = 2
            /\ f.net[1].what = "refresh_token"
            /\ f.net[2].kind = "api"
            /\ ~Falsy(f.pre.access_token)
            /\ access_token # f.pre.access_token
            /\ f.net[2].cred = Bearer(access_token)

\* C10: after a successful refresh exchange the held refresh token is the
\* fresh one when the response provides one, and the one held before
\* otherwise.
C10_RefreshAdoptsFreshRefreshToken ==
    \A c \in Callers :
        LET f == frame[c]
        IN  (/\ f.pc = "done"
             /\ Returned(f, "refresh_access_token", TRUE)
             /\ TokenRequests(f) # <<>>
             /\ TokenRequests(f)[1].what = "refresh_token")
                => refresh_token =
                        IF f.data.refresh_token # Missing
                            THEN f.data.refresh_token
                            ELSE f.pre.refresh_token

---------------------------------------------------------------------------
\* C12: authenticate and refresh_access_token never raise; a refused token
\* request (non-200), a failed one (network) and an undecodable answer each
\* make them return False; they return True only after an HTTP 200 answer.
C12_TokenMethodsNeverRaise ==
    \A c \in Callers :
        LET f == frame[c]
            a == TokenAnswers(f)
        IN  /\ f.raised =>
                /\ Entered(f, "authenticate") = 0
                /\ Entered(f, "refresh_access_token") = 0
            /\ \A fn \in {"authenticate", "refresh_access_token"} :
                /\ (f.pc = "done" /\ f.op = fn) =>
                        /\ ~f.raised
                        /\ Returned(f, fn, TRUE) # Returned(f, fn, FALSE)
                /\ Returned(f, fn, TRUE) =>
                        /\ DOMAIN a # {}
                        /\ \A i \in DOMAIN a : a[i].kind = "http" /\ a[i].status = 200
                /\ (Entered(f, fn) > 0 /\ \E i \in DOMAIN a : TokenAnswerFailed(a[i])) =>
                        /\ Returned(f, fn, FALSE)
                        /\ ~Returned(f, fn, TRUE)

\* C12 witness: an undecodable token answer, reported as False
C12_Witness ==
    \E c \in Callers :
        LET f == frame[c]
        IN  /\ Done(c, "refresh_access_token")
            /\ ~f.raised
            /\ Len(f.replies) = 1
            /\ f.replies[1].status = 200
            /\ f.replies[1].json = "malformed"
            /\ f.net[1].what = "refresh_token"
            /\ Returned(f, "refresh_access_token", FALSE)

\* C13: when the API endpoint answers with a status other than 200, _call_api
\* returns code = the status as a string, the generic description and no
\* data, whatever the body of the answer.
C13_HttpErrorResult ==
    \A c \in Callers :
        LET f == frame[c]
            a == ApiAnswers(f)
        IN  Done(c, "_call_api") =>
                \A i \in DOMAIN a :
                    (a[i].kind = "http" /\ a[i].status # 200) =>
                        /\ f.result.type = "dict"
                        /\ f.result.data = Missing
                        /\ a[i].status = 401 =>
                                /\ f.result.code = "401"
                                /\ f.result.desc = "HTTP 401 error"
                        /\ a[i].status = 500 =>
                                /\ f.result.code = "500"
                                /\ f.result.desc = "HTTP 500 error"

\* C13 witness: an HTTP 500 answer whose body is a success object with data
C13_Witness ==
    \E c \in Callers :
        LET f == frame[c]
        IN  /\ Done(c, "_call_api")
            /\ Len(f.replies) = 1
            /\ f.net[1].kind = "api"
            /\ f.replies[1].status = 500
            /\ f.replies[1].body.code = "000000"
            /\ f.replies[1].body.data = "remote data"
            /\ f.result.code = "500"

\* C14: when the API endpoint answers HTTP 200 with a body that decodes,
\* _call_api returns that body as it is: code, desc and data unmodified,
\* remote application errors included.
C14_SuccessBodyVerbatim ==
    \A c \in Callers :
        LET f == frame[c]
            a == ApiAnswers(f)
        IN  Done(c, "_call_api") =>
                \A i \in DOMAIN a :
                    (a[i].kind = "http" /\ a[i].status = 200) =>
                        /\ a[i].json = "dict" => f.result = a[i].body
                        /\ a[i].json = "nondict" => f.result.type = "nondict"

\* C14 witness: a remote application error with data, passed through
C14_Witness ==
    \E c \in Callers :
        LET f == frame[c]
        IN  /\ Done(c, "_call_api")
            /\ Len(f.replies) = 2
            /\ f.net[2].kind = "api"
            /\ f.replies[2].status = 200
            /\ f.replies[2].body.code = "010101"
            /\ f.replies[2].body.data = "remote data"
            /\ f.result = f.replies[2].body

\* C17: when authenticate or refresh_access_token succeeds at time t,
\* token_expires_at becomes t + the lifetime the token response declares, and
\* t + 3600 when it declares none; the expiry held before is not kept.
C17_ExpiryIsNowPlusLifetime ==
    [][\A c \in Callers :
        LET f == frame[c]
            fn == IF f.pc = "auth_store_expiry" THEN "authenticate"
                                                ELSE "refresh_access_token"
            lifetime == IF f.data.expires_in.tag = "missing"
                            THEN 3600 ELSE f.data.expires_in.n
        IN  (/\ f.pc \in {"auth_store_expiry", "refresh_store_expiry"}
             /\ Returned(frame'[c], fn, TRUE))
                => token_expires_at' = <<now + lifetime>>]_vars

\* C17 witness: a refresh exchange that declared no lifetime has replaced the
\* expiry held before
C17_Witness ==
    \E c \in Callers :
        LET f == frame[c]
        IN  /\ Done(c, "refresh_access_token")
            /\ Returned(f, "refresh_access_token", TRUE)
            /\ f.net[1].what = "refresh_token"
            /\ f.data.expires_in.tag = "missing"
            /\ f.pre.token_expires_at # NoneDT
            /\ token_expires_at # f.pre.token_expires_at
            /\ token_expires_at[1] >= f.pre.now + 3600

\* C18: whenever authenticate or refresh_access_token returns False, the
\* token fields have the values they had when the method was entered.
C18_FalseLeavesTokenStateUnchanged ==
    \A c \in Callers :
        LET f == frame[c]
        IN  (/\ f.pc = "done"
             /\ f.op \in {"authenticate", "refresh_access_token"}
             /\ Returned(f, f.op, FALSE))
                => TokenStateUnchanged(f)

---------------------------------------------------------------------------
\* a domain operation of caller c has returned or raised
DomainDone(c, o) ==
    /\ frame[c].pc = "done"
    /\ frame[c].outer = o
    /\ frame[c].returned # Pending

\* the remote side answers every request in one fixed way
RemoteFixed == remote.cc # "any" /\ remote.rt # "any" /\ remote.api # "any"

\* C16: get_home_info issued twice in a row against a remote side that
\* answers the same way both times gives the same data both times, whatever
\* the token fields and the time elapsed between the two calls.
C16_HomeInfoIdempotent ==
    \A c \in Callers :
        LET f == frame[c]
        IN  (DomainDone(c, "get_home_info") /\ RemoteFixed /\ f.prev # NoReturn)
                => f.returned = f.prev

\* C20: when its _call_api yields an object whose code is not "000000",
\* get_home_info returns None and get_devices returns an empty list, and
\* home_id and devices are what they were before the operation.
C20_FailedOperationKeepsCache ==
    \A c \in Callers :
        LET f == frame[c]
            failed == ~f.raised /\ f.result.type = "dict" /\ f.result.code # "000000"
        IN  /\ (DomainDone(c, "get_home_info") /\ failed) =>
                    /\ f.returned = [kind |-> "None", val |-> <<>>]
                    /\ home_id = f.pre.home_id
                    /\ devices = f.pre.devices
            /\ (DomainDone(c, "get_devices") /\ failed) =>
                    /\ f.returned = [kind |-> "list", val |-> <<>>]
                    /\ home_id = f.pre.home_id
                    /\ devices = f.pre.devices

\* C20 witness: with a home cached, get_home_info got an HTTP 500 answer
C20_Witness ==
    \E c \in Callers :
        LET f == frame[c]
        IN  /\ DomainDone(c, "get_home_info")
            /\ f.result.code = "500"
            /\ f.pre.home_id # None
            /\ home_id = f.pre.home_id
            /\ f.returned.kind = "None"

---------------------------------------------------------------------------
\* C15: create_client with the identifier or the secret missing (neither the
\* argument nor the environment variable gives a value; an empty string is
\* no value) raises the configuration error, creates no client and sends
\* nothing; with both present it returns a client whose token fields are
\* empty, and sends nothing.
C15_CreateClientNeedsBothCredentials ==
    [][LET a == client'.args
           e == client'.environ
           absent(i) == a[i] \in {None, ""} /\ e[i] \in {None, ""}
       IN  /\ (client.state = "none" /\ client'.state # "none") =>
                /\ frame' = frame
                /\ \A c \in Callers : frame'[c].net = <<>>
                /\ IF absent(1) \/ absent(2)
                      THEN client'.state = "ValueError"
                      ELSE /\ client'.state = "constructed"
                           /\ client'.uaid = IF a[1] \in {None, ""} THEN e[1] ELSE a[1]
                           /\ client'.secret_key =
                                    IF a[2] \in {None, ""} THEN e[2] ELSE a[2]
                           /\ access_token' = None
                           /\ refresh_token' = None
                           /\ token_expires_at' = NoneDT
           /\ client.state # "constructed" => frame' = frame]_vars

\* C15 witness: create_client raised with the identifier given and the secret
\* given nowhere
C15_Witness ==
    /\ client.state = "ValueError"
    /\ client.args = <<"ua_arg", None>>
    /\ client.environ[2] = None
    /\ \A c \in Callers : frame[c] = IdleFrame

---------------------------------------------------------------------------
\* an invocation of _call_api has passed the token gate and sent its request
GatePassed ==
    \E c \in Callers : frame[c].op = "_call_api" /\ ApiRequests(frame[c]) # <<>>

\* C19: with auto-renewal enabled and a token endpoint that accepts the
\* client identifier and secret, from every reachable state the repeated
\* invocations of _call_api eventually pass the token gate and send an API
\* request, even when the refresh token held is refused.
C19_RenewalNeverBlocked ==
    [](auto_refresh /\ remote.cc = "grant" => <>GatePassed)

---------------------------------------------------------------------------
\* callers c and d have each sent a token request for the token state they
\* both found when they entered
RedundantRenewal(c, d) ==
    /\ TokenRequests(frame[c]) # <<>>
    /\ TokenRequests(frame[d]) # <<>>
    /\ frame[c].pre.access_token = frame[d].pre.access_token
    /\ frame[c].pre.token_expires_at = frame[d].pre.token_expires_at

\* caller d has stored a new access token and not yet its expiry, and caller
\* c entered meanwhile: it read the new token with the expiry held before
HalfWrittenRead(c, d) ==
    /\ frame[d].pc \in {"auth_store_refresh", "auth_store_expiry", "refresh_store_expiry"}
    /\ frame[c].op = "_call_api"
    /\ frame[c].pre.access_token = Get(frame[d].data, "access_token")
    /\ frame[c].pre.access_token # frame[d].pre.access_token
    /\ frame[c].pre.token_expires_at = frame[d].pre.token_expires_at

\* C11: with two concurrent callers of _call_api on one client, the two never
\* both send a token request for the same stale or absent token, and neither
\* reads an access token together with the expiry of another token.
C11_RenewalIsCriticalSection ==
    \A c, d \in Callers :
        c # d => ~RedundantRenewal(c, d) /\ ~HalfWrittenRead(c, d)

=============================================================================
